---- MODULE Spec2Model ----
(***************************************************************************)
(* A deploy run of the cdk-app-runner repository:                          *)
(*   cdk deploy "*" -c env=<ENV> -c commit=<COMMIT_HASH>                   *)
(* The app program (bin) resolves the environment's configuration, then    *)
(* constructs network-stack, db-stack and api-stack and declares their     *)
(* dependencies; the toolkit then applies the constructed stacks in the    *)
(* order of the declared dependencies, publishing each stack's outputs in  *)
(* the export table.                                                       *)
(***************************************************************************)
EXTENDS Naturals, Sequences, FiniteSets, TLC

VARIABLES
  pc,          \* position of the run: in the app program, then in the toolkit
  envSel,      \* -c env=...   (deploy-time parameter)
  commit,      \* -c commit=... (deploy-time parameter)
  doc,         \* cdk.context.json: environment name -> configuration subtree
  props,       \* the destructured result of tryGetContext(envType)
  stacks,      \* the stacks constructed in the app
  deps,        \* declared dependencies: <<dependent, dependency>>
  dbInstances, \* the instance types DBStack.newCluster computed
  errs,        \* the errors raised in this run
  status,      \* per constructed stack: pending | applying | applied | failed
  order,       \* the stacks in the order their apply completed
  exportTable, \* the export names present in the account/region
  built,       \* per constructed stack: what its constructor was given and did
  images       \* the images present in the container registry

vars == <<pc, envSel, commit, doc, props, stacks, deps, dbInstances, errs,
          status, order, exportTable, built, images>>

---------------------------------------------------------------------------
(* Stack identifiers.  network-stack, db-stack and api-stack are the ids   *)
(* given in the app; DBBastionStack and FrontStack are classes of the      *)
(* repository that the app never instantiates, named by their class.       *)

NETWORK == "network-stack"
DB      == "db-stack"
API     == "api-stack"
BASTION == "DBBastionStack"
FRONT   == "FrontStack"

AppStacks == {NETWORK, DB, API}
StackClasses == {NETWORK, DB, API, BASTION, FRONT}

VPC_CONNECTOR_SG_ID == "vpc-connector-sg-id"
VPC_CONNECTOR_ARN   == "vpc-connector-arn"
DB_SG_ID            == "db-sg-id"

ExportNames == {VPC_CONNECTOR_SG_ID, VPC_CONNECTOR_ARN, DB_SG_ID}

(* The export names a stack's template publishes (CfnOutput exportName). *)
Outputs(s) ==
  IF s = NETWORK THEN {VPC_CONNECTOR_SG_ID, VPC_CONNECTOR_ARN}
  ELSE IF s = DB THEN {DB_SG_ID}
  ELSE {}

(* The export names a stack's template reads (Fn.importValue). *)
Imports(s) ==
  IF s = API THEN {VPC_CONNECTOR_SG_ID, DB_SG_ID, VPC_CONNECTOR_ARN}
  ELSE IF s = BASTION THEN {DB_SG_ID}
  ELSE {}

---------------------------------------------------------------------------
(* The configuration document.                                             *)

Undefined == [kind |-> "undefined"]

(* Leaf fields the prop types declare (NetworkProps, DBProps, APIProps). *)
NetworkFields ==
  {"network.vpc.cidr", "network.vpc.maxAzs",
   "network.vpc.subnetConfiguration", "network.vpc.natGatewaysCount",
   "network.hostedZoneName"}

DBFields ==
  {"db.cluster.preferredMaintenanceWindow", "db.cluster.backtrackWindow",
   "db.cluster.instance.writer.instanceSize",
   "db.cluster.instance.writer.instanceClass",
   "db.cluster.instance.reader.instanceSize",
   "db.cluster.instance.reader.instanceClass",
   "db.cluster.backup.retention", "db.cluster.backup.preferredWindow",
   "db.cluster.scalableTarget.minCapacity",
   "db.cluster.scalableTarget.maxCapacity",
   "db.cluster.scalableTarget.targetValue",
   "db.cluster.scalableTarget.scaleInCooldown",
   "db.cluster.scalableTarget.scaleOutCooldown"}

APIFields ==
  {"api.appRunner.cpu", "api.appRunner.memory",
   "api.appRunner.healthCheck.interval", "api.appRunner.healthCheck.path",
   "api.appRunner.healthCheck.timeout",
   "api.appRunner.healthCheck.healthyThreshold",
   "api.appRunner.healthCheck.unhealthyThreshold",
   "api.appRunner.healthCheck.protocol"}

RequiredFields == NetworkFields \cup DBFields \cup APIFields

(* Leaf fields the shipped document populates under "dev". *)
ShippedFields ==
  {"network.vpc.cidr", "network.vpc.maxAzs",
   "network.vpc.subnetConfiguration", "network.vpc.natGatewaysCount"}
  \cup DBFields \cup APIFields

Tree(subnets, wc, ws, rc, rs, fields) ==
  [kind |-> "object", subnetTypes |-> subnets,
   writerClass |-> wc, writerSize |-> ws,
   readerClass |-> rc, readerSize |-> rs, fields |-> fields]

(* The "dev" subtree of the shipped cdk.context.json. *)
ShippedDev ==
  Tree(<<"private", "public">>, "t3", "medium", "t3", "medium", ShippedFields)

(* The inputs a user may write into the document (README, step 3). *)
SizeInputs   == {"small", "medium", "large", "xlarge"}
ClassInputs  == {"t3", "t3a", "t4g", "m5"}
SubnetInputs == {<<"private", "public">>, <<"isolated", "public">>,
                 <<"private", "bogus">>, <<"bogus", "public">>}
FieldInputs  == {ShippedFields, RequiredFields}

DevTrees ==
  {Tree(sn, wc, ws, rc, rs, f) :
     sn \in SubnetInputs, wc \in ClassInputs, ws \in SizeInputs,
     rc \in ClassInputs, rs \in SizeInputs, f \in FieldInputs}

(* A second environment a user may add. *)
ProdTree ==
  Tree(<<"private", "isolated">>, "t4g", "large", "t4g", "large", RequiredFields)

Documents ==
  {[e \in {"dev"} |-> t] : t \in DevTrees}
  \cup {[e \in {"dev", "prod"} |-> IF e = "dev" THEN t ELSE ProdTree] :
          t \in DevTrees}
  \cup {[e \in {"prod"} |-> ProdTree]}

EnvSelectors == {"dev", "prod", "stg", "commit"}
CommitHashes == {"a1b2c3d"}

(* app.node.tryGetContext(key): the context merges the -c values with the  *)
(* document; an absent key gives undefined.                                *)
TryGetContext(key) ==
  IF key = "env" THEN [kind |-> "string", value |-> envSel]
  ELSE IF key = "commit" THEN [kind |-> "string", value |-> commit]
  ELSE IF key \in DOMAIN doc THEN doc[key]
  ELSE Undefined

---------------------------------------------------------------------------
(* The enum mappings of the stacks.  A call either returns a value or      *)
(* throws an Error with the message given in the source.                   *)

Return(v) == [kind |-> "return", value |-> v]
Throw(m)  == [kind |-> "throw", value |-> m]

INVALID_SIZE   == "Invalid instance size"
INVALID_CLASS  == "Invalid instance class"
INVALID_SUBNET == "Invalid subnet type"
TYPE_ERROR     == "TypeError"

(* getRDSInstanceSize with a default that returns a size. *)
getRDSInstanceSizeDefault(size) ==
  CASE size = "small"  -> Return("InstanceSize.SMALL")
    [] size = "large"  -> Return("InstanceSize.LARGE")
    [] OTHER           -> Return("InstanceSize.MEDIUM")

(* DBStack.getRDSInstanceSize *)
getRDSInstanceSize(size) ==
  CASE size = "small"  -> Return("InstanceSize.SMALL")
    [] size = "medium" -> Return("InstanceSize.MEDIUM")
    [] size = "large"  -> Return("InstanceSize.LARGE")
    [] OTHER           -> Throw(INVALID_SIZE)

(* getRDSInstanceClass with a default that returns a class. *)
getRDSInstanceClassDefault(instanceClass) ==
  CASE instanceClass = "t3a" -> Return("InstanceClass.T3A")
    [] instanceClass = "t4g" -> Return("InstanceClass.T4G")
    [] OTHER                 -> Return("InstanceClass.T3")

(* DBStack.getRDSInstanceClass *)
getRDSInstanceClass(instanceClass) ==
  CASE instanceClass = "t3"  -> Return("InstanceClass.T3")
    [] instanceClass = "t3a" -> Return("InstanceClass.T3A")
    [] instanceClass = "t4g" -> Return("InstanceClass.T4G")
    [] OTHER                 -> Throw(INVALID_CLASS)

(* getSubnetType without the case "private". *)
getSubnetTypeNoPrivate(subnet) ==
  CASE subnet = "public"   -> Return("SubnetType.PUBLIC")
    [] subnet = "isolated" -> Return("SubnetType.PRIVATE_ISOLATED")
    [] OTHER               -> Throw(INVALID_SUBNET)

(* NetworkStack.getSubnetType *)
getSubnetType(subnet) ==
  CASE subnet = "public"   -> Return("SubnetType.PUBLIC")
    [] subnet = "isolated" -> Return("SubnetType.PRIVATE_ISOLATED")
    [] subnet = "private"  -> Return("SubnetType.PRIVATE_WITH_EGRESS")
    [] OTHER               -> Throw(INVALID_SUBNET)

(* The first throw of a sequence of calls evaluated left to right, or the  *)
(* sequence of their values.                                               *)
RECURSIVE FirstThrow(_)
FirstThrow(calls) ==
  IF calls = <<>> THEN Return(<<>>)
  ELSE IF Head(calls).kind = "throw" THEN Head(calls)
  ELSE LET rest == FirstThrow(Tail(calls))
       IN  IF rest.kind = "throw" THEN rest
           ELSE Return(<<Head(calls).value>> \o rest.value)

(* NetworkStack.newVPC: subnetConfiguration.map(... getSubnetType ...);    *)
(* reading this.networkProps.vpc of an undefined networkProps is a         *)
(* TypeError.                                                              *)
newVPC(p) ==
  IF p.kind # "object" THEN Throw(TYPE_ERROR)
  ELSE FirstThrow([i \in 1..Len(p.subnetTypes) |->
                     getSubnetType(p.subnetTypes[i])])

(* DBStack.newCluster: InstanceType.of(class, size) for the writer, then   *)
(* for the reader; arguments are evaluated left to right.                  *)
newCluster(p) ==
  IF p.kind # "object" THEN Throw(TYPE_ERROR)
  ELSE LET r == FirstThrow(<<getRDSInstanceClass(p.writerClass),
                             getRDSInstanceSize(p.writerSize),
                             getRDSInstanceClass(p.readerClass),
                             getRDSInstanceSize(p.readerSize)>>)
       IN  IF r.kind = "throw" THEN r
           ELSE Return([writer |-> <<r.value[1], r.value[2]>>,
                        reader |-> <<r.value[3], r.value[4]>>])

---------------------------------------------------------------------------
(* The app program.                                                        *)

NoInstances == [kind |-> "none"]

(* An exception that is caught and dropped: the program goes on. *)
UncaughtSwallowed(next) == next

(* An exception no statement of the app catches ends the process. *)
Uncaught(next) == "failed"

(* The app without db.addDependency(network). *)
DbDependenciesNone == {}

(* db.addDependency(network) *)
DbDependencies == {<<DB, NETWORK>>}

(* The app without api.addDependency(db). *)
ApiDependenciesNoDb == {<<API, NETWORK>>}

(* api.addDependency(network); api.addDependency(db) *)
ApiDependencies == {<<API, NETWORK>>, <<API, DB>>}

---------------------------------------------------------------------------
(* What a stack is constructed from.  An input of a constructor is a       *)
(* configuration subtree, a deploy-time parameter, a construct of another  *)
(* stack handed over by reference, or a value the stack looks up by name   *)
(* in a store outside the app.                                             *)

In(kind, from, name) == [kind |-> kind, from |-> from, name |-> name]

(* { networkProps } *)
NetworkInputs == {In("config", "context", "network")}

(* DBStack handed the connector of NetworkStack next to its vpc. *)
DBInputsWithConnector ==
  {In("config", "context", "db"), In("object", NETWORK, "vpc"),
   In("object", NETWORK, "vpcConnector"),
   In("store", "secretsmanager", "db-init-secret")}

(* { dbProps, vpc: network.vpc }; Secret.fromSecretNameV2("db-init-secret") *)
DBInputs ==
  {In("config", "context", "db"), In("object", NETWORK, "vpc"),
   In("store", "secretsmanager", "db-init-secret")}

(* { envType, commitHash, apiProps }; the /db/... secure string parameters *)
APIInputs ==
  {In("config", "context", "api"), In("parameter", "context", "env"),
   In("parameter", "context", "commit"), In("store", "ssm", "/db")}

(* { vpc }: the only ec2.Vpc of the repository is NetworkStack's. *)
BastionInputs == {In("object", NETWORK, "vpc")}

(* {}; the /front/... string parameters *)
FrontInputs == {In("store", "ssm", "/front")}

CtorInputs(s) ==
  CASE s = NETWORK -> NetworkInputs
    [] s = DB      -> DBInputs
    [] s = API     -> APIInputs
    [] s = BASTION -> BastionInputs
    [] s = FRONT   -> FrontInputs

---------------------------------------------------------------------------
(* Constructor bodies: the statements in their order, each with the        *)
(* instance fields it reads and the instance fields assigned when it       *)
(* returns.                                                                *)

Step(name, reads, writes) == [step |-> name, reads |-> reads, writes |-> writes]

NetworkCtor ==
  << Step("networkProps", {}, {"networkProps"}),
     Step("newVPC", {"networkProps"}, {"vpc"}),
     Step("newVPCConnector", {"vpc"}, {}) >>

(* DBStack's constructor with newParameterGroup called ahead of newRole. *)
DBCtorParameterGroupFirst ==
  << Step("dbProps", {}, {"dbProps"}),
     Step("vpc", {}, {"vpc"}),
     Step("newParameterGroup", {"role"}, {"paramaterGroup"}),
     Step("newRole", {}, {"role"}),
     Step("newSecurityGroup", {"vpc"}, {"securityGroup"}),
     Step("newSubnetGroup", {"vpc"}, {"subnetGroup"}),
     Step("newCluster", {"paramaterGroup", "securityGroup", "subnetGroup",
                         "dbProps", "vpc"}, {}) >>

DBCtor ==
  << Step("dbProps", {}, {"dbProps"}),
     Step("vpc", {}, {"vpc"}),
     Step("newRole", {}, {"role"}),
     Step("newSecurityGroup", {"vpc"}, {"securityGroup"}),
     Step("newParameterGroup", {"role"}, {"paramaterGroup"}),
     Step("newSubnetGroup", {"vpc"}, {"subnetGroup"}),
     Step("newCluster", {"paramaterGroup", "securityGroup", "subnetGroup",
                         "dbProps", "vpc"}, {}) >>

(* The field initialisers PORT and MYSQL_PORT run ahead of the body. *)
APICtor ==
  << Step("initialisers", {}, {"PORT", "MYSQL_PORT"}),
     Step("envType", {}, {"envType"}),
     Step("commitHash", {}, {"commitHash"}),
     Step("apiProps", {}, {"apiProps"}),
     Step("imageBuildAndPush", {"envType"}, {"repository"}),
     Step("addIngessRuleFromAPI", {"MYSQL_PORT"}, {}),
     Step("newAppRunner", {"apiProps", "repository", "commitHash", "PORT"},
          {"appRunner"}),
     Step("newWAF", {"appRunner"}, {}) >>

(* The constructor of DBBastionStack works on locals only. *)
BastionCtor == << Step("body", {}, {}) >>

FrontCtor ==
  << Step("newOriginBucket", {}, {"originBucket"}),
     Step("newCloudFrontDistribution", {"originBucket"},
          {"cloudFrontDistribution"}),
     Step("s3Deploy", {"originBucket", "cloudFrontDistribution"}, {}) >>

CtorSteps(s) ==
  CASE s = NETWORK -> NetworkCtor
    [] s = DB      -> DBCtor
    [] s = API     -> APICtor
    [] s = BASTION -> BastionCtor
    [] s = FRONT   -> FrontCtor

(* Run the statements in order, up to and including the one that throws   *)
(* (whose assignment then does not happen), and collect the reads of       *)
(* fields no earlier statement assigned.                                   *)
RECURSIVE RunCtor(_, _, _, _)
RunCtor(steps, failing, assigned, unassigned) ==
  IF steps = <<>> THEN unassigned
  ELSE LET st  == Head(steps)
           bad == {<<st.step, f>> : f \in st.reads \ assigned}
       IN  IF st.step = failing THEN unassigned \cup bad
           ELSE RunCtor(Tail(steps), failing, assigned \cup st.writes,
                        unassigned \cup bad)

---------------------------------------------------------------------------
(* Container images: a repository name and a tag.                          *)

NoTag == "none"
NoImage == [repo |-> "none", tag |-> NoTag]
REPOSITORY_NAME == "api"

(* dest: new ecrdeploy.DockerImageName(repository.repositoryUri): the      *)
(* reference the deployment copies the built image to names no tag.        *)
EcrDeploymentDest == [repo |-> REPOSITORY_NAME, tag |-> NoTag]

(* imageIdentifier: `${this.repository.repositoryUri}:${this.commitHash}` *)
ImageIdentifier(commitHash) == [repo |-> REPOSITORY_NAME, tag |-> commitHash]

(* A constructed stack. *)
Construct(s, failing, commitHash) ==
  [inputs          |-> CtorInputs(s),
   unassigned      |-> RunCtor(CtorSteps(s), failing, {}, {}),
   dest            |-> IF s = API THEN EcrDeploymentDest ELSE NoImage,
   imageIdentifier |-> IF s = API THEN ImageIdentifier(commitHash)
                       ELSE NoImage]

AppInit ==
  /\ pc = "resolve"
  /\ envSel \in EnvSelectors
  /\ commit \in CommitHashes
  /\ doc \in Documents
  /\ props = Undefined
  /\ stacks = {}
  /\ deps = {}
  /\ dbInstances = NoInstances
  /\ errs = {}
  /\ status = [s \in {} |-> "pending"]
  /\ order = <<>>
  /\ exportTable = {}
  /\ built = [s \in {} |-> NoImage]
  /\ images = {}

(* const { api, network, db } = app.node.tryGetContext(envType) as EnvProps *)
(* Destructuring undefined throws; destructuring a string gives three      *)
(* undefined properties; the cast checks nothing.                          *)
ResolveConfig ==
  /\ pc = "resolve"
  /\ LET v == TryGetContext(TryGetContext("env").value)
     IN  IF v.kind = "undefined"
         THEN /\ errs' = errs \cup {TYPE_ERROR}
              /\ pc' = Uncaught("network")
              /\ props' = props
         ELSE /\ props' = v
              /\ pc' = "network"
              /\ errs' = errs
  /\ UNCHANGED <<envSel, commit, doc, stacks, deps, dbInstances, status,
                 order, exportTable,
                 built, images>>

(* new NetworkStack(app, "network-stack", { networkProps, env }) *)
NewNetworkStack ==
  /\ pc = "network"
  /\ LET r == newVPC(props)
     IN  IF r.kind = "throw"
         THEN /\ errs' = errs \cup {r.value}
              /\ pc' = Uncaught("db")
         ELSE /\ errs' = errs
              /\ pc' = "db"
  /\ stacks' = stacks \cup {NETWORK}
  /\ built' = built @@ (NETWORK :> Construct(NETWORK,
                 IF newVPC(props).kind = "throw" THEN "newVPC" ELSE "none",
                 TryGetContext("commit").value))
  /\ UNCHANGED <<envSel, commit, doc, props, deps, dbInstances, status,
                 order, exportTable,
                 images>>

(* new DBStack(app, "db-stack", { dbProps, vpc: network.vpc, env }) *)
NewDBStack ==
  /\ pc = "db"
  /\ LET r == newCluster(props)
     IN  IF r.kind = "throw"
         THEN /\ errs' = errs \cup {r.value}
              /\ pc' = Uncaught("dbDep")
              /\ dbInstances' = dbInstances
         ELSE /\ errs' = errs
              /\ pc' = "dbDep"
              /\ dbInstances' = r.value
  /\ stacks' = stacks \cup {DB}
  /\ built' = built @@ (DB :> Construct(DB,
                 IF newCluster(props).kind = "throw" THEN "newCluster"
                 ELSE "none",
                 TryGetContext("commit").value))
  /\ UNCHANGED <<envSel, commit, doc, props, deps, status, order, exportTable,
                 images>>

DbAddDependency ==
  /\ pc = "dbDep"
  /\ deps' = deps \cup DbDependencies
  /\ pc' = "api"
  /\ UNCHANGED <<envSel, commit, doc, props, stacks, dbInstances, errs,
                 status, order, exportTable, built, images>>

(* new APIStack(app, "api-stack", { envType, commitHash, apiProps, env }) *)
NewAPIStack ==
  /\ pc = "api"
  /\ stacks' = stacks \cup {API}
  /\ built' = built @@ (API :> Construct(API, "none",
                                         TryGetContext("commit").value))
  /\ pc' = "apiDep"
  /\ UNCHANGED <<envSel, commit, doc, props, deps, dbInstances, errs,
                 status, order, exportTable, images>>

ApiAddDependency ==
  /\ pc = "apiDep"
  /\ deps' = deps \cup ApiDependencies
  /\ pc' = "synthed"
  /\ UNCHANGED <<envSel, commit, doc, props, stacks, dbInstances, errs,
                 status, order, exportTable, built, images>>

---------------------------------------------------------------------------
(* The toolkit: plan, then apply.  It orders the constructed stacks by     *)
(* their declared dependencies; a stack's exports enter the export table   *)
(* when its apply completes, and a stack whose template imports a name     *)
(* that is not in the table is refused.                                    *)

CYCLIC_DEPENDENCY      == "CyclicDependency"
UNRESOLVED_EXPORT      == "UnresolvedExport"
PROVIDER_APPLY_FAILURE == "ProviderApplyFailure"

DependenciesOf(s) == {d \in stacks : <<s, d>> \in deps}

(* Repeatedly remove the stacks none of whose dependencies remain; what is *)
(* left cannot be ordered.                                                 *)
RECURSIVE Peel(_)
Peel(S) ==
  LET ready == {s \in S : DependenciesOf(s) \cap S = {}}
  IN  IF ready = {} THEN S ELSE Peel(S \ ready)

(* A check that finds only two stacks depending on each other. *)
UnorderablePairsOnly ==
  {s \in stacks : \E d \in stacks : <<s, d>> \in deps /\ <<d, s>> \in deps}

Unorderable == Peel(stacks)

(* A lookup among the names any stack class exports, in the set or not. *)
UnproducedAnywhere ==
  {e \in UNION {Imports(s) : s \in stacks} : e \notin ExportNames}

(* The required export names no stack of the set produces. *)
Unproduced ==
  {e \in UNION {Imports(s) : s \in stacks} :
     \A p \in stacks : e \notin Outputs(p)}

PlanProblems ==
  (IF Unorderable # {} THEN {CYCLIC_DEPENDENCY} ELSE {})
  \cup (IF Unproduced # {} THEN {UNRESOLVED_EXPORT} ELSE {})

(* The app program ran to its end: the cloud assembly is complete. *)
Synthesized == pc = "synthed"

Plan ==
  /\ Synthesized
  /\ IF PlanProblems # {}
     THEN /\ errs' = errs \cup PlanProblems
          /\ pc' = "done"
          /\ status' = status
     ELSE /\ errs' = errs
          /\ pc' = "deploy"
          /\ status' = [s \in stacks |-> "pending"]
  /\ UNCHANGED <<envSel, commit, doc, props, stacks, deps, dbInstances,
                 order, exportTable,
                 built, images>>

(* A stack may start once every stack it depends on has been applied. *)
Ready(s) ==
  /\ status[s] = "pending"
  /\ \A d \in DependenciesOf(s) : status[d] = "applied"

StartApply(s) ==
  /\ pc = "deploy"
  /\ errs = {}
  /\ Ready(s)
  /\ IF Imports(s) \subseteq exportTable
     THEN /\ status' = [status EXCEPT ![s] = "applying"]
          /\ errs' = errs
     ELSE /\ status' = [status EXCEPT ![s] = "failed"]
          /\ errs' = errs \cup {UNRESOLVED_EXPORT}
  /\ UNCHANGED <<pc, envSel, commit, doc, props, stacks, deps, dbInstances,
                 order, exportTable,
                 built, images>>

(* An error ends the run: the applies in progress are abandoned where     *)
(* they are.                                                             *)
CompleteApply(s) ==
  /\ pc = "deploy"
  /\ errs = {}
  /\ status[s] = "applying"
  /\ status' = [status EXCEPT ![s] = "applied"]
  /\ order' = Append(order, s)
  /\ exportTable' = exportTable \cup Outputs(s)
  /\ images' = IF built[s].dest = NoImage THEN images
               ELSE images \cup {built[s].dest}
  /\ UNCHANGED <<pc, envSel, commit, doc, props, stacks, deps, dbInstances,
                 errs,
                 built>>

FailApply(s) ==
  /\ pc = "deploy"
  /\ errs = {}
  /\ status[s] = "applying"
  /\ status' = [status EXCEPT ![s] = "failed"]
  /\ errs' = errs \cup {PROVIDER_APPLY_FAILURE}
  /\ UNCHANGED <<pc, envSel, commit, doc, props, stacks, deps, dbInstances,
                 order, exportTable,
                 built, images>>

Finish ==
  /\ pc = "deploy"
  /\ errs # {} \/ \A s \in stacks : status[s] = "applied"
  /\ pc' = "done"
  /\ UNCHANGED <<envSel, commit, doc, props, stacks, deps, dbInstances,
                 errs, status, order, exportTable,
                 built, images>>

---------------------------------------------------------------------------
(* The deploy run of the repository's app. *)

Init == AppInit

Next ==
  \/ ResolveConfig
  \/ NewNetworkStack
  \/ NewDBStack
  \/ DbAddDependency
  \/ NewAPIStack
  \/ ApiAddDependency
  \/ Plan
  \/ \E s \in stacks : StartApply(s)
  \/ \E s \in stacks : CompleteApply(s)
  \/ \E s \in stacks : FailApply(s)
  \/ Finish

Spec == Init /\ [][Next]_vars

---------------------------------------------------------------------------
(* A deploy run of the app followed by a teardown of what it applied. The  *)
(* toolkit destroys a stack, and with it the exports the stack produced,   *)
(* only when every stack that depends on it has been destroyed or was      *)
(* never started.                                                          *)

BeginTeardown ==
  /\ pc = "done"
  /\ pc' = "destroy"
  /\ UNCHANGED <<envSel, commit, doc, props, stacks, deps, dbInstances,
                 errs, status, order, exportTable,
                 built, images>>

Dependents(s) == {t \in stacks : <<t, s>> \in deps}

Destroy(s) ==
  /\ pc = "destroy"
  /\ s \in DOMAIN status
  /\ status[s] \in {"applying", "applied", "failed"}
  /\ \A t \in Dependents(s) : status[t] \in {"pending", "destroyed"}
  /\ status' = [status EXCEPT ![s] = "destroyed"]
  /\ exportTable' = IF status[s] = "applied" THEN exportTable \ Outputs(s)
                    ELSE exportTable
  /\ UNCHANGED <<pc, envSel, commit, doc, props, stacks, deps, dbInstances,
                 errs, order,
                 built, images>>

NextTeardown ==
  \/ Next
  \/ BeginTeardown
  \/ \E s \in stacks : Destroy(s)

SpecTeardown == Init /\ [][NextTeardown]_vars

---------------------------------------------------------------------------
(* Deploy runs over the stack sets an app can compose from the             *)
(* repository's stack classes, with the dependencies it may declare.       *)

CandidateDependencies ==
  {<<DB, NETWORK>>, <<API, NETWORK>>, <<API, DB>>,
   <<NETWORK, DB>>, <<NETWORK, API>>, <<DB, API>>,
   <<BASTION, DB>>, <<BASTION, NETWORK>>}

InitSets ==
  /\ pc = "synthed"
  /\ envSel = "dev"
  /\ commit \in CommitHashes
  /\ doc = [e \in {"dev"} |-> ShippedDev]
  /\ props = ShippedDev
  /\ stacks \in SUBSET StackClasses
  /\ deps \in SUBSET {d \in CandidateDependencies :
                        d[1] \in stacks /\ d[2] \in stacks}
  /\ dbInstances = IF DB \in stacks THEN newCluster(ShippedDev).value
                   ELSE NoInstances
  /\ errs = {}
  /\ status = [s \in {} |-> "pending"]
  /\ order = <<>>
  /\ exportTable = {}
  /\ built = [s \in stacks |-> Construct(s, "none", commit)]
  /\ images = {}

NextSets ==
  \/ Plan
  \/ \E s \in stacks : StartApply(s)
  \/ \E s \in stacks : CompleteApply(s)
  \/ \E s \in stacks : FailApply(s)
  \/ Finish

SpecSets == InitSets /\ [][NextSets]_vars

(* Deploy runs of the repository's app and of the composed stack sets. *)
InitAll == AppInit \/ InitSets

SpecAll == InitAll /\ [][Next]_vars

---------------------------------------------------------------------------
(* Vocabulary of the properties.                                           *)

Applied == {order[i] : i \in 1..Len(order)}

Before(a, b) ==
  \E i, j \in 1..Len(order) : i < j /\ order[i] = a /\ order[j] = b

Started == {s \in DOMAIN status : status[s] \in {"applying", "applied"}}

(* The dependencies the app declares. *)
AppDependencies == DbDependencies \cup ApiDependencies

(* A set of stacks each of which depends on a member of the set: the       *)
(* dependency graph has a cycle exactly when one exists.                   *)
HasCycle ==
  \E S \in SUBSET stacks :
    /\ S # {}
    /\ \A s \in S : \E d \in S : <<s, d>> \in deps

ValidationErrors == {TYPE_ERROR, INVALID_SIZE, INVALID_CLASS, INVALID_SUBNET}

---------------------------------------------------------------------------
(* C1: in every deploy run, each applied stack comes after the stacks that *)
(* produce the exports it requires; with the dependencies the app          *)
(* declares for network-stack, db-stack and api-stack, network-stack is    *)
(* applied before db-stack and both are applied before api-stack.          *)
C1_ApplyOrderFollowsProducers ==
  /\ \A i \in 1..Len(order) : \A e \in Imports(order[i]) :
       \E j \in 1..(i - 1) : e \in Outputs(order[j])
  /\ (stacks = AppStacks /\ deps = AppDependencies) =>
       /\ DB \in Applied => Before(NETWORK, DB)
       /\ API \in Applied => Before(NETWORK, API) /\ Before(DB, API)

C1_Witness ==
  /\ pc = "done"
  /\ stacks = AppStacks
  /\ order = <<NETWORK, DB, API>>

(* C2: in every deploy run a stack is being applied or has been applied    *)
(* only with every export it imports in the export table, and a stack      *)
(* whose imports are missing is refused with UnresolvedExport and never    *)
(* applied; with the dependencies the app declares, the imports of a stack *)
(* are in the table whenever the toolkit may start it, so no stack is      *)
(* refused and none waits for a value.                                     *)
C2_ImportsPresentAtApply ==
  /\ \A s \in Started : Imports(s) \subseteq exportTable
  /\ \A s \in DOMAIN status :
       (status[s] = "failed" /\ ~(Imports(s) \subseteq exportTable)) =>
         UNRESOLVED_EXPORT \in errs /\ s \notin Applied
  /\ (stacks = AppStacks /\ deps = AppDependencies) =>
       /\ pc = "deploy" =>
            \A s \in stacks : Ready(s) => Imports(s) \subseteq exportTable
       /\ UNRESOLVED_EXPORT \notin errs

C2_Witness ==
  /\ pc = "deploy"
  /\ stacks = AppStacks
  /\ deps = AppDependencies
  /\ API \in Started
  /\ Imports(API) = ExportNames
  /\ ExportNames \subseteq exportTable

(* C3 (as stated): every stack class of the repository that imports an     *)
(* export has a declared dependency on the stack that produces it.         *)
C3_EveryImportHasDependency ==
  Synthesized =>
    \A c \in StackClasses : \A e \in Imports(c) :
      \E p \in StackClasses : e \in Outputs(p) /\ <<c, p>> \in deps

(* C4 (as stated): resolution of a present environment returns its subtree *)
(* with every required field populated; resolution of an absent            *)
(* environment fails.                                                      *)
C4_ResolvedSubtreeComplete ==
  pc # "resolve" =>
    IF envSel \in DOMAIN doc
    THEN /\ props = doc[envSel]
         /\ RequiredFields \subseteq props.fields
    ELSE /\ pc = "failed"
         /\ errs = {TYPE_ERROR}
         /\ stacks = {}

(* C5: the instance-size mapping sends "small", "medium" and "large" to    *)
(* SMALL, MEDIUM and LARGE and throws "Invalid instance size" for every    *)
(* other string; DBStack's construction returns the mapped sizes of the    *)
(* writer and the reader, or fails with that error at the first size that  *)
(* is not one of the three.                                                *)
C5_SizeTier(size) ==
  CASE size = "small"  -> "InstanceSize.SMALL"
    [] size = "medium" -> "InstanceSize.MEDIUM"
    [] size = "large"  -> "InstanceSize.LARGE"
    [] OTHER           -> "none"

C5_KnownClass(c) == c \in {"t3", "t3a", "t4g"}

C5_InstanceSizeMappingTotal ==
  /\ \A size \in SizeInputs \cup ClassInputs \cup {"", "Small", "MEDIUM"} :
       IF C5_SizeTier(size) # "none"
       THEN getRDSInstanceSize(size) = Return(C5_SizeTier(size))
       ELSE getRDSInstanceSize(size) = Throw(INVALID_SIZE)
  /\ (DB \in stacks /\ props.kind = "object" /\ C5_KnownClass(props.writerClass)) =>
       IF C5_SizeTier(props.writerSize) = "none"
       THEN errs = {INVALID_SIZE} /\ dbInstances = NoInstances /\ pc = "failed"
       ELSE IF ~C5_KnownClass(props.readerClass)
       THEN INVALID_SIZE \notin errs
       ELSE IF C5_SizeTier(props.readerSize) = "none"
       THEN errs = {INVALID_SIZE} /\ dbInstances = NoInstances /\ pc = "failed"
       ELSE /\ INVALID_SIZE \notin errs
            /\ dbInstances.writer[2] = C5_SizeTier(props.writerSize)
            /\ dbInstances.reader[2] = C5_SizeTier(props.readerSize)

C5_Witness ==
  /\ DB \in stacks
  /\ props.kind = "object"
  /\ props.writerSize = "large"
  /\ props.readerSize = "xlarge"
  /\ C5_KnownClass(props.writerClass)
  /\ C5_KnownClass(props.readerClass)
  /\ errs = {INVALID_SIZE}

(* C6: when a validation error (missing environment, unknown instance size *)
(* or class, unknown subnet type) has been raised, no stack has been       *)
(* applied or started and no export exists, whichever stacks were          *)
(* constructed before the error.                                           *)
C6_ValidationBeforeMutation ==
  errs \cap ValidationErrors # {} =>
    /\ order = <<>>
    /\ Started = {}
    /\ exportTable = {}
    /\ pc = "failed"

C6_Witness ==
  /\ errs = {INVALID_CLASS}
  /\ NETWORK \in stacks
  /\ DB \in stacks
  /\ pc = "failed"

(* C7: a stack set whose dependency graph has a cycle fails with           *)
(* CyclicDependency when planned; no stack of it is ever applied or        *)
(* started and no order is chosen.                                         *)
C7_CycleFails ==
  HasCycle =>
    /\ order = <<>>
    /\ Started = {}
    /\ exportTable = {}
    /\ pc \in {"synthed", "done"}
    /\ pc = "done" => CYCLIC_DEPENDENCY \in errs

C7_Witness ==
  /\ <<API, DB>> \in deps
  /\ <<DB, API>> \in deps
  /\ pc = "done"
  /\ CYCLIC_DEPENDENCY \in errs

(* C8: a stack set in which a stack imports a name that no stack of the    *)
(* set exports fails with UnresolvedExport when planned; so do api-stack   *)
(* without network-stack or db-stack, and DBBastionStack without db-stack. *)
C8_MissingProducer ==
  \/ \E s \in stacks : \E e \in Imports(s) :
       \A p \in stacks : e \notin Outputs(p)
  \/ API \in stacks /\ NETWORK \notin stacks
  \/ API \in stacks /\ DB \notin stacks
  \/ BASTION \in stacks /\ DB \notin stacks

C8_UnresolvedExportFails ==
  (C8_MissingProducer /\ pc # "synthed") =>
    /\ pc = "done"
    /\ UNRESOLVED_EXPORT \in errs

C8_Witness ==
  /\ stacks = {NETWORK, API}
  /\ pc = "done"
  /\ errs = {UNRESOLVED_EXPORT}

(* C9: with the shipped document and env=dev, resolution and the           *)
(* construction of the stacks raise no error, the stacks are applied in    *)
(* the order network-stack, db-stack, api-stack, and FrontStack neither    *)
(* imports nor exports a name nor takes part in a declared dependency.     *)
C9_Prefix(a, b) == Len(a) <= Len(b) /\ a = SubSeq(b, 1, Len(a))

C9_ShippedDevOrder ==
  (envSel = "dev" /\ "dev" \in DOMAIN doc /\ doc["dev"] = ShippedDev) =>
    /\ pc # "failed"
    /\ errs \subseteq {PROVIDER_APPLY_FAILURE}
    /\ pc \notin {"resolve"} => props = ShippedDev
    /\ pc \in {"deploy", "done"} => stacks = AppStacks
    /\ C9_Prefix(order, <<NETWORK, DB, API>>)
    /\ (pc = "done" /\ errs = {}) => order = <<NETWORK, DB, API>>
    /\ Imports(FRONT) = {} /\ Outputs(FRONT) = {}
    /\ \A d \in deps : d[1] # FRONT /\ d[2] # FRONT

C9_Witness ==
  /\ envSel = "dev"
  /\ doc = [e \in {"dev"} |-> ShippedDev]
  /\ pc = "done"
  /\ errs = {}
  /\ order = <<NETWORK, DB, API>>

(* C10 (as stated): a deploy run that ends with no failure has applied     *)
(* each of the four units: network, database, compute and static site.     *)
C10_AllFourUnitsApplied ==
  (pc = "done" /\ errs = {}) => {NETWORK, DB, API, FRONT} \subseteq Applied

(* C16: the instance-class mapping sends "t3", "t3a" and "t4g" to T3, T3A  *)
(* and T4G and throws "Invalid instance class" for every other string;     *)
(* DBStack's construction carries the mapped classes of the writer and the *)
(* reader, or fails with that error at the first class, the writer's or    *)
(* the reader's, that is not one of the three.                             *)
C16_Class(c) ==
  CASE c = "t3"  -> "InstanceClass.T3"
    [] c = "t3a" -> "InstanceClass.T3A"
    [] c = "t4g" -> "InstanceClass.T4G"
    [] OTHER     -> "none"

C16_KnownSize(size) == size \in {"small", "medium", "large"}

C16_InstanceClassMappingTotal ==
  /\ \A c \in ClassInputs \cup SizeInputs \cup {"", "T3", "t3 ", "t2"} :
       IF C16_Class(c) # "none"
       THEN getRDSInstanceClass(c) = Return(C16_Class(c))
       ELSE getRDSInstanceClass(c) = Throw(INVALID_CLASS)
  /\ (DB \in stacks /\ props.kind = "object") =>
       IF C16_Class(props.writerClass) = "none"
       THEN errs = {INVALID_CLASS} /\ dbInstances = NoInstances /\ pc = "failed"
       ELSE IF ~C16_KnownSize(props.writerSize)
       THEN INVALID_CLASS \notin errs
       ELSE IF C16_Class(props.readerClass) = "none"
       THEN errs = {INVALID_CLASS} /\ dbInstances = NoInstances /\ pc = "failed"
       ELSE /\ INVALID_CLASS \notin errs
            /\ C16_KnownSize(props.readerSize) =>
                 /\ dbInstances.writer[1] = C16_Class(props.writerClass)
                 /\ dbInstances.reader[1] = C16_Class(props.readerClass)

C16_Witness ==
  /\ DB \in stacks
  /\ props.kind = "object"
  /\ props.writerClass = "t4g"
  /\ C16_KnownSize(props.writerSize)
  /\ props.readerClass = "m5"
  /\ errs = {INVALID_CLASS}
  /\ pc = "failed"

(* C12: once an error of the run has been raised, the run constructs,      *)
(* starts, applies and retries nothing further and raises no second error: *)
(* all that can follow is the end of the run.                              *)
C12_ErrorsAreFatal ==
  [][errs # {} =>
       /\ errs' = errs
       /\ stacks' = stacks
       /\ deps' = deps
       /\ status' = status
       /\ order' = order
       /\ exportTable' = exportTable
       /\ pc' \in {pc, "done"}]_vars

C12_Witness ==
  /\ pc = "done"
  /\ stacks = AppStacks
  /\ errs = {PROVIDER_APPLY_FAILURE}
  /\ order = <<NETWORK>>
  /\ status[DB] = "failed"
  /\ status[API] = "pending"

(* C13: a stack is started only after every stack it depends on has been   *)
(* applied, so two stacks related by dependencies are never being applied  *)
(* at the same time; with the dependencies the app declares, at most one   *)
(* of network-stack, db-stack and api-stack is being applied at a time.    *)
C13_Applying == {s \in DOMAIN status : status[s] = "applying"}

RECURSIVE C13_Reach(_)
C13_Reach(S) ==
  LET more == S \cup {d \in stacks : \E s \in S : <<s, d>> \in deps}
  IN  IF more = S THEN S ELSE C13_Reach(more)

C13_Related(s, t) == t \in C13_Reach({s}) \/ s \in C13_Reach({t})

C13_NoConcurrentApplyAcrossDependency ==
  /\ \A s \in DOMAIN status : \A d \in DOMAIN status :
       (<<s, d>> \in deps /\ status[s] # "pending") => status[d] = "applied"
  /\ \A s \in C13_Applying : \A t \in C13_Applying \ {s} : ~C13_Related(s, t)
  /\ (stacks = AppStacks /\ deps = AppDependencies) =>
       Cardinality(C13_Applying) <= 1

C13_Witness ==
  /\ stacks = {NETWORK, DB, FRONT}
  /\ <<DB, NETWORK>> \in deps
  /\ pc = "deploy"
  /\ status[NETWORK] = "applied"
  /\ status[DB] = "applying"
  /\ status[FRONT] = "applying"

(* C11: in a teardown of the app's stacks a stack is destroyed only after  *)
(* every stack applied after it: api-stack before db-stack, and both       *)
(* before network-stack; and no applied stack imports an export that is    *)
(* no longer in the export table.                                          *)
C11_Gone(s) == s \in DOMAIN status /\ status[s] \in {"pending", "destroyed"}

C11_TeardownReversesApplyOrder ==
  /\ \A i \in 1..Len(order) : \A j \in 1..Len(order) :
       (i < j /\ status[order[i]] = "destroyed") =>
         status[order[j]] = "destroyed"
  /\ \A s \in DOMAIN status :
       status[s] = "destroyed" => \A t \in Dependents(s) : C11_Gone(t)
  /\ (DB \in DOMAIN status /\ status[DB] = "destroyed") => C11_Gone(API)
  /\ (NETWORK \in DOMAIN status /\ status[NETWORK] = "destroyed") =>
       C11_Gone(DB) /\ C11_Gone(API)
  /\ \A s \in DOMAIN status :
       status[s] = "applied" => Imports(s) \subseteq exportTable

C11_Witness ==
  /\ pc = "destroy"
  /\ order = <<NETWORK, DB, API>>
  /\ status[API] = "destroyed"
  /\ status[DB] = "destroyed"
  /\ status[NETWORK] = "applied"
  /\ exportTable = Outputs(NETWORK)

C14_OwnSubtree(s) ==
  CASE s = NETWORK -> {"network"}
    [] s = DB      -> {"db"}
    [] s = API     -> {"api"}
    [] OTHER       -> {}

C15_ReleaseIdentifierTagsImage ==
  API \in Applied =>
    /\ built[API].imageIdentifier = [repo |-> REPOSITORY_NAME, tag |-> commit]
    /\ built[API].imageIdentifier \in images

(* C17: in every constructor that has run, no statement read an instance   *)
(* field that no earlier statement had assigned; the fields the claim      *)
(* names are each assigned by one statement and read by a later one.       *)
C17_ReadsFollowAssignments ==
  /\ \A s \in DOMAIN built : built[s].unassigned = {}
  /\ \A f \in {"repository", "appRunner"} : API \in DOMAIN built =>
       \E i \in 1..Len(APICtor) : \E j \in 1..Len(APICtor) :
         i < j /\ f \in APICtor[i].writes /\ f \in APICtor[j].reads
  /\ \A f \in {"role", "securityGroup", "paramaterGroup", "subnetGroup"} :
     DB \in DOMAIN built =>
       \E i \in 1..Len(DBCtor) : \E j \in 1..Len(DBCtor) :
         i < j /\ f \in DBCtor[i].writes /\ f \in DBCtor[j].reads

C17_Witness ==
  /\ DOMAIN built = AppStacks
  /\ pc = "synthed"
  /\ built[DB].unassigned = {}
  /\ built[API].unassigned = {}

====
